---- MODULE Spec2Model ----
(***************************************************************************)
(* Model of the authenticated content-management slice of the repository:  *)
(* the users/posts schema (src/src/db/seed.ts 45-82), the database client  *)
(* (src/unnamed/part_002), the posts route handlers GET and POST           *)
(* (src/unnamed/part_000 581-624), the session callback                    *)
(* (src/src/auth/config.ts 27-34) and the seed routine                     *)
(* (src/src/db/seed.ts 5-44).                                              *)
(*                                                                         *)
(* The relational store is modelled by what the schema declares: primary   *)
(* keys generated by the store, users.email unique, posts.title not null   *)
(* and at most 255 characters, posts.published default false,              *)
(* posts.author_id a foreign key to users.id, created_at default now().    *)
(* One action is one step between two suspension points (awaits) of a      *)
(* handler, so concurrent handlers interleave at exactly those points.     *)
(***************************************************************************)
EXTENDS Integers, Sequences, FiniteSets, TLC

VARIABLES dbUrl, proc, users, posts, now, req, creates, seedp, seedRuns, seedExits

vars == <<dbUrl, proc, users, posts, now, req, creates, seedp, seedRuns, seedExits>>

(***************************************************************************)
(* Bounds of the model.                                                    *)
(***************************************************************************)
MaxTime == 2          \* the store's clock runs over 0..MaxTime
MaxCreates == 3       \* 'create post' requests admitted in one behaviour
MaxSeedRuns == 2      \* runs of the seed script started in one behaviour

(***************************************************************************)
(* Program constants.                                                      *)
(***************************************************************************)
TitleMaxLen == 255    \* varchar('title', { length: 255 })
SeedPostCount == 2    \* the seed routine inserts two rows in one statement

Reqs == {1, 2}        \* handler invocations that may be in flight together
SeedProcs == {1, 2}   \* seed processes that may be running together

Null == "<null>"      \* JavaScript undefined / SQL NULL for a text value
Undefined == 0        \* JavaScript undefined for an id (token.sub unset)

DemoEmail == "demo@example.com"
DemoName == "Demo User"
OtherEmail == "alice@example.com"
Emails == {DemoEmail, OtherEmail}   \* addresses that sign in

\* Ids a token may carry: ids the store hands out, and one it never does.
SubIds == 1 .. (Cardinality(Emails) + 1)

RECURSIVE Pad(_)
Pad(n) == IF n = 0 THEN "" ELSE "x" \o Pad(n - 1)

OverlongTitle == Pad(TitleMaxLen + 1)

Titles == {Null, "Hello", OverlongTitle}
Contents == {Null, "text"}

\* A parsed request body; Malformed stands for a body request.json() rejects.
Malformed == [ok |-> FALSE, title |-> Null, content |-> Null,
              authorId |-> Undefined, published |-> FALSE]
\* A body carries title and content, and may carry fields the handler
\* does not read: here authorId and published together, or neither.
Bodies == {b \in [ok : {TRUE}, title : Titles, content : Contents,
                  authorId : {Undefined, 1}, published : BOOLEAN] :
             (b.authorId # Undefined) <=> b.published}

(***************************************************************************)
(* The schema: what an insert must satisfy, and the defaults it fills in.  *)
(***************************************************************************)
UserIds(us) == {u.id : u \in us}

\* Variant: email carries no unique constraint.
UsersInsertOkNotUnique(us, email) == TRUE

\* users.email: varchar(255) notNull unique
UsersInsertOk(us, email) == \A u \in us : u.email # email

\* users.id: primaryKey default gen_random_uuid(); never reused (no delete)
NewUserRow(us, email, name) ==
    [id |-> Cardinality(us) + 1, email |-> email, name |-> name]

\* posts.title: varchar(255) notNull
TitleOk(title) == title # Null /\ Len(title) <= TitleMaxLen

\* posts.author_id: uuid notNull references users.id
AuthorOk(us, authorId) == authorId # Undefined /\ authorId \in UserIds(us)

\* Variant: author_id carries no foreign key.
PostsInsertErrorNoForeignKey(us, title, authorId) ==
    IF title = Null \/ authorId = Undefined THEN "not_null"
    ELSE IF ~TitleOk(title) THEN "too_long"
    ELSE "none"

\* The violated constraint, as the store reports it.
PostsInsertError(us, title, authorId) ==
    IF title = Null \/ authorId = Undefined THEN "not_null"
    ELSE IF ~TitleOk(title) THEN "too_long"
    ELSE IF ~AuthorOk(us, authorId) THEN "foreign_key"
    ELSE "none"

\* Variant: the generated id repeats.
NewPostRowSameId(ps, k, title, content, published, authorId, t) ==
    [id |-> k, title |-> title, content |-> content,
     published |-> published, authorId |-> authorId, createdAt |-> t]

\* posts.id default gen_random_uuid(), created_at default now()
NewPostRow(ps, k, title, content, published, authorId, t) ==
    [id |-> Cardinality(ps) + k, title |-> title, content |-> content,
     published |-> published, authorId |-> authorId, createdAt |-> t]

\* published: boolean default(false) notNull
PublishedDefault == FALSE

(***************************************************************************)
(* The session: getServerSession(authConfig) answers null or the object    *)
(* the session callback builds from the token.                             *)
(***************************************************************************)
NoSession == [present |-> FALSE, user |-> [id |-> Undefined]]

\* No token reached the callback: the request carried none.
NoToken == [sub |-> Undefined]

\* Variant: the callback passes the session on without the subject.
SessionCallbackNoId(session, token) == [session EXCEPT !.present = TRUE]

\* callbacks.session: ({ session, token }) => ({ ...session,
\*     user: { ...session.user, id: token.sub } })
SessionCallback(session, token) ==
    [session EXCEPT !.present = TRUE, !.user = [session.user EXCEPT !.id = token.sub]]

Tokens == [sub : SubIds \cup {Undefined}]
Sessions == {NoSession} \cup {SessionCallback(NoSession, t) : t \in Tokens}

\* session?.user?.id
SessionUserId(session) == IF session.present THEN session.user.id ELSE Undefined

\* Variant: the check looks only for a session object.
UnauthorizedNoSessionOnly(session) == ~session.present

\* if (!session?.user?.id) return 401
Unauthorized(session) == SessionUserId(session) = Undefined

(***************************************************************************)
(* findMany({ include: { author: { select: { name, email } } },            *)
(*            orderBy: { createdAt: 'desc' } })                            *)
(***************************************************************************)
AuthorOf(us, p) ==
    IF \E u \in us : u.id = p.authorId
    THEN LET u == CHOOSE u \in us : u.id = p.authorId
         IN  [name |-> u.name, email |-> u.email]
    ELSE [name |-> Null, email |-> Null]

Include(us, p) == [post |-> p, author |-> AuthorOf(us, p)]

\* Variant: ORDER BY created_at ASC.
FirstOldest(ps) == {p \in ps : \A q \in ps : p.createdAt <= q.createdAt}

\* Rows that may come first under ORDER BY created_at DESC.
First(ps) == {p \in ps : \A q \in ps : p.createdAt >= q.createdAt}

\* Every order the store may return: rows of equal created_at in any order.
RECURSIVE OrderBy(_)
OrderBy(ps) ==
    IF ps = {} THEN {<<>>}
    ELSE UNION {{<<p>> \o s : s \in OrderBy(ps \ {p})} : p \in First(ps)}

\* Variant: only published posts are listed.
WherePublished(ps) == {p \in ps : p.published}

\* findMany has no where clause.
Where(ps) == ps

FindMany(us, ps) ==
    {[i \in 1 .. Len(s) |-> Include(us, s[i])] : s \in OrderBy(Where(ps))}

(***************************************************************************)
(* State of one handler invocation and of one seed process.                *)
(***************************************************************************)
NoPost == [id |-> 0, title |-> Null, content |-> Null, published |-> FALSE,
           authorId |-> Undefined, createdAt |-> 0]

IdleReq == [pc |-> "idle", kind |-> "none", token |-> NoToken,
            session |-> NoSession, body |-> Malformed, status |-> 0, rows |-> <<>>, post |-> NoPost,
            error |-> "none", dbCalls |-> 0]

IdleSeed == [pc |-> "idle", user |-> Undefined, error |-> "none"]

\* The handle reaches the store only when DATABASE_URL names it.
StoreReachable == dbUrl = "valid"

Init ==
    /\ dbUrl \in {"valid", "absent", "malformed"}
    /\ proc = "loading"
    /\ users = {}
    /\ posts = {}
    /\ now = 0
    /\ req = [r \in Reqs |-> IdleReq]
    /\ creates = 0
    /\ seedp = [s \in SeedProcs |-> IdleSeed]
    /\ seedRuns = 0
    /\ seedExits = 0

(***************************************************************************)
(* Database client: const connectionString = process.env.DATABASE_URL!;    *)
(* const client = postgres(connectionString, { prepare: false }).          *)
(* The source checks nothing itself ('!' is erased at compile time), so    *)
(* what an absent or malformed value does is the driver's business: it     *)
(* either throws while the module loads or hands back a handle that fails  *)
(* on use.  Both are outcomes.                                             *)
(***************************************************************************)
DbInitOutcomes(url) ==
    IF url = "valid" THEN {"serving"} ELSE {"crashed", "serving"}

Startup ==
    /\ proc = "loading"
    /\ proc' \in DbInitOutcomes(dbUrl)
    /\ UNCHANGED <<dbUrl, users, posts, now, req, creates, seedp, seedRuns, seedExits>>

\* The store's clock.
Tick ==
    /\ proc # "loading"
    /\ now < MaxTime
    /\ now' = now + 1
    /\ UNCHANGED <<dbUrl, proc, users, posts, req, creates, seedp, seedRuns, seedExits>>

\* adapter: DrizzleAdapter(db) -- a first sign-in inserts the user's row.
SignIn(email) ==
    /\ proc = "serving"
    /\ StoreReachable
    /\ users' = IF UsersInsertOk(users, email)
                THEN users \cup {NewUserRow(users, email, Null)}
                ELSE users
    /\ users' # users
    /\ UNCHANGED <<dbUrl, proc, posts, now, req, creates, seedp, seedRuns, seedExits>>

(***************************************************************************)
(* GET: one storage call, answered 200 with the rows or 500.               *)
(***************************************************************************)
GetStatus(error) == IF error = "none" THEN 200 ELSE 500

GET(r) ==
    /\ proc = "serving"
    /\ req[r].pc = "idle"
    /\ \E fault \in BOOLEAN :
         LET error == IF StoreReachable /\ ~fault THEN "none" ELSE "unavailable"
         IN  \E rows \in (IF error = "none" THEN FindMany(users, posts) ELSE {<<>>}) :
               req' = [req EXCEPT ![r] =
                         [IdleReq EXCEPT !.pc = "done", !.kind = "GET",
                                         !.status = GetStatus(error), !.rows = rows,
                                         !.error = error, !.dbCalls = 1]]
    /\ UNCHANGED <<dbUrl, proc, users, posts, now, creates, seedp, seedRuns, seedExits>>

(***************************************************************************)
(* POST, first step: await getServerSession(authConfig), then the check.   *)
(***************************************************************************)
PostResolve(r) ==
    /\ proc = "serving"
    /\ req[r].pc = "idle"
    /\ creates < MaxCreates
    /\ creates' = creates + 1
    /\ \E threw \in BOOLEAN, signedIn \in BOOLEAN, token \in Tokens :
         LET session == IF signedIn THEN SessionCallback(NoSession, token)
                        ELSE NoSession
             carried == IF signedIn THEN token ELSE NoToken
         IN  req' = [req EXCEPT ![r] =
                   IF threw
                   THEN [IdleReq EXCEPT !.pc = "done", !.kind = "POST",
                                        !.status = 500, !.error = "session"]
                   ELSE IF Unauthorized(session)
                   THEN [IdleReq EXCEPT !.pc = "done", !.kind = "POST",
                                        !.token = carried,
                                        !.session = session, !.status = 401]
                   ELSE [IdleReq EXCEPT !.pc = "create", !.kind = "POST",
                                        !.token = carried,
                                        !.session = session]]
    /\ UNCHANGED <<dbUrl, proc, users, posts, now, seedp, seedRuns, seedExits>>

(***************************************************************************)
(* POST, second step: const { title, content } = await request.json();     *)
(* prisma.post.create({ data: { title, content, authorId:                  *)
(* session.user.id } }); 201 with the record, or the catch's 500.          *)
(* request.json() reads the request alone, so it is taken with the insert. *)
(***************************************************************************)
\* const { title, content } = await request.json()
Destructure(body) == [title |-> body.title, content |-> body.content]

\* Variant: authorId and published are taken from the body when it has them.
CreateDataFromBody(session, body) ==
    [title |-> Destructure(body).title, content |-> Destructure(body).content,
     authorId |-> IF body.authorId # Undefined THEN body.authorId
                  ELSE session.user.id,
     published |-> body.published]

CreateData(session, body) ==
    [title |-> Destructure(body).title, content |-> Destructure(body).content,
     authorId |-> session.user.id, published |-> PublishedDefault]

\* Variant: a constraint violation is told apart and answered 400.
CreateStatusBySubtype(error) ==
    IF error = "none" THEN 201
    ELSE IF error \in {"not_null", "too_long"} THEN 400
    ELSE 500

CreateStatus(error) == IF error = "none" THEN 201 ELSE 500

\* What a failed insert leaves in the table.
FailedInsert(ps, row) == ps

PostCreate(r) ==
    /\ req[r].pc = "create"
    /\ \E body \in Bodies \cup {Malformed}, fault \in BOOLEAN :
         LET data == CreateData(req[r].session, body)
             row == NewPostRow(posts, 1, data.title, data.content,
                               data.published, data.authorId, now)
             error == IF ~body.ok THEN "body"
                      ELSE IF ~StoreReachable \/ fault THEN "unavailable"
                      ELSE PostsInsertError(users, data.title, data.authorId)
         IN  /\ posts' = IF error = "none" THEN posts \cup {row}
                         ELSE IF body.ok THEN FailedInsert(posts, row) ELSE posts
             /\ req' = [req EXCEPT ![r] =
                          [@ EXCEPT !.pc = "done", !.body = body,
                                    !.status = CreateStatus(error),
                                    !.post = IF error = "none" THEN row ELSE NoPost,
                                    !.error = error,
                                    !.dbCalls = IF body.ok THEN 1 ELSE 0]]
    /\ UNCHANGED <<dbUrl, proc, users, now, creates, seedp, seedRuns, seedExits>>

\* Variant: the resolved session stays behind after the response.
RespondKeepsSession(r) ==
    /\ req[r].pc = "done"
    /\ req' = [req EXCEPT ![r] = [IdleReq EXCEPT !.token = req[r].token,
                                                  !.session = req[r].session]]
    /\ UNCHANGED <<dbUrl, proc, users, posts, now, creates,
                   seedp, seedRuns, seedExits>>

\* The response leaves; the invocation's state goes with it.
Respond(r) ==
    /\ req[r].pc = "done"
    /\ req' = [req EXCEPT ![r] = IdleReq]
    /\ UNCHANGED <<dbUrl, proc, users, posts, now, creates, seedp, seedRuns, seedExits>>

(***************************************************************************)
(* Seed routine, one action per statement it awaits.                       *)
(***************************************************************************)
\* db.select().from(users).where(eq(users.email, 'demo@example.com')).limit(1)
SelectByEmail(us, email) == {u \in us : u.email = email}

SeedSelect(s) ==
    /\ proc # "loading"
    /\ seedp[s].pc \in {"idle", "exited", "failed"}
    /\ seedRuns < MaxSeedRuns
    /\ seedRuns' = seedRuns + 1
    /\ \E fault \in BOOLEAN :
         LET existingUser == SelectByEmail(users, DemoEmail)
         IN  seedp' = [seedp EXCEPT ![s] =
                 IF ~StoreReachable \/ fault
                 THEN [pc |-> "failed", user |-> Undefined, error |-> "unavailable"]
                 ELSE IF existingUser # {}
                 THEN [pc |-> "insertPosts",
                       user |-> (CHOOSE u \in existingUser : TRUE).id,
                       error |-> "none"]
                 ELSE [pc |-> "insertUser", user |-> Undefined, error |-> "none"]]
    /\ UNCHANGED <<dbUrl, proc, users, posts, now, req, creates, seedExits>>

\* db.insert(users).values({ email, name }).returning()
SeedInsertUser(s) ==
    /\ seedp[s].pc = "insertUser"
    /\ \E fault \in BOOLEAN :
         LET newUser == NewUserRow(users, DemoEmail, DemoName)
             error == IF fault THEN "unavailable"
                      ELSE IF ~UsersInsertOk(users, DemoEmail) THEN "unique"
                      ELSE "none"
         IN  /\ users' = IF error = "none" THEN users \cup {newUser} ELSE users
             /\ seedp' = [seedp EXCEPT ![s] =
                   IF error = "none"
                   THEN [pc |-> "insertPosts", user |-> newUser.id, error |-> "none"]
                   ELSE [pc |-> "failed", user |-> Undefined, error |-> error]]
    /\ UNCHANGED <<dbUrl, proc, posts, now, req, creates, seedRuns, seedExits>>

\* db.insert(posts).values([First Post, Draft Post]); then process.exit(0)
\* Variant: the demo posts are inserted only into an empty table.
SeedPostsOnce(ps, user, t) ==
    IF ps # {} THEN {}
    ELSE {NewPostRow(ps, 1, "First Post", "This is my first post using Drizzle ORM!",
                     TRUE, user, t),
          NewPostRow(ps, 2, "Draft Post", "This post is still in draft.",
                     FALSE, user, t)}

SeedPosts(ps, user, t) ==
    {NewPostRow(ps, 1, "First Post", "This is my first post using Drizzle ORM!",
                TRUE, user, t),
     NewPostRow(ps, 2, "Draft Post", "This post is still in draft.",
                FALSE, user, t)}

SeedInsertPosts(s) ==
    /\ seedp[s].pc = "insertPosts"
    /\ \E fault \in BOOLEAN :
         LET error == IF fault THEN "unavailable"
                      ELSE PostsInsertError(users, "First Post", seedp[s].user)
         IN  /\ posts' = IF error = "none"
                         THEN posts \cup SeedPosts(posts, seedp[s].user, now)
                         ELSE posts
             /\ seedp' = [seedp EXCEPT ![s] =
                   IF error = "none"
                   THEN [@ EXCEPT !.pc = "exited"]
                   ELSE [pc |-> "failed", user |-> Undefined, error |-> error]]
             /\ seedExits' = IF error = "none" THEN seedExits + 1 ELSE seedExits
    /\ UNCHANGED <<dbUrl, proc, users, now, req, creates, seedRuns>>

\* A seed run started only once every earlier run has ended.
SeedSelectAlone(s) ==
    /\ \A o \in SeedProcs \ {s} : seedp[o].pc \in {"idle", "exited", "failed"}
    /\ SeedSelect(s)

(***************************************************************************)
(* Specifications.  Spec: the posts API serving one request at a time,     *)
(* with sign-ins.  SpecConcurrent: two 'create post' invocations in flight *)
(* together, each handling one request.  SpecSeed: seed processes running  *)
(* together, and 'list posts'.  SpecSeq: seed runs one after another.      *)
(***************************************************************************)
Serial == {1}

Next ==
    \/ Startup
    \/ Tick
    \/ \E e \in Emails : SignIn(e)
    \/ \E r \in Serial : GET(r)
    \/ \E r \in Serial : PostResolve(r)
    \/ \E r \in Serial : PostCreate(r)
    \/ \E r \in Serial : Respond(r)

Spec == Init /\ [][Next]_vars

NextConcurrent ==
    \/ Startup
    \/ Tick
    \/ \E e \in Emails : SignIn(e)
    \/ \E r \in Reqs : PostResolve(r)
    \/ \E r \in Reqs : PostCreate(r)

SpecConcurrent == Init /\ [][NextConcurrent]_vars

NextSeed ==
    \/ Startup
    \/ Tick
    \/ \E r \in Serial : GET(r)
    \/ \E r \in Serial : Respond(r)
    \/ \E s \in SeedProcs : SeedSelect(s)
    \/ \E s \in SeedProcs : SeedInsertUser(s)
    \/ \E s \in SeedProcs : SeedInsertPosts(s)

SpecSeed == Init /\ [][NextSeed]_vars

NextSeq ==
    \/ Startup
    \/ Tick
    \/ \E s \in SeedProcs : SeedSelectAlone(s)
    \/ \E s \in SeedProcs : SeedInsertUser(s)
    \/ \E s \in SeedProcs : SeedInsertPosts(s)

SpecSeq == Init /\ [][NextSeq]_vars

(***************************************************************************)
(* Properties.                                                             *)
(***************************************************************************)
\* The step in which invocation r finishes (its response is decided).
Finishes(r) == req[r].pc # "done" /\ req'[r].pc = "done"

\* A session that carries no user id: null, or its user.id unset.
NoIdentity(session) == ~session.present \/ session.user.id = Undefined

\* C1: a 'create post' request whose resolved session carries no identity
\* is answered 401 in the step that resolves it, without any storage call,
\* and that step leaves the Post rows and the User rows as they were.
C1_UnauthorizedLeavesStore ==
    [][\A r \in Reqs :
         (/\ req[r].pc = "idle"
          /\ req'[r].kind = "POST"
          /\ req'[r].error # "session"
          /\ NoIdentity(req'[r].session))
         => (/\ req'[r].pc = "done"
             /\ req'[r].status = 401
             /\ req'[r].dbCalls = 0
             /\ posts' = posts
             /\ users' = users)]_vars

\* C1 happens: a session with an unset user id was answered 401 over a
\* store that holds users and posts.
C1_Witness ==
    \E r \in Reqs :
        /\ req[r].kind = "POST" /\ req[r].status = 401
        /\ req[r].session.present /\ req[r].session.user.id = Undefined
        /\ posts # {} /\ users # {}

\* C2: a 'create post' request that is answered 201 added exactly one Post
\* row; the row's authorId is the resolved session's user id and its
\* published is false whatever the body carries, its title and content
\* are the body's, and the response is that row.
C2_CreateOwnsRow ==
    [][\A r \in Reqs :
         (Finishes(r) /\ req'[r].kind = "POST" /\ req'[r].status = 201)
         => \E row \in posts' :
              /\ row \notin posts
              /\ posts' = posts \cup {row}
              /\ Cardinality(posts') = Cardinality(posts) + 1
              /\ row.authorId = req[r].session.user.id
              /\ row.published = FALSE
              /\ row.title = req'[r].body.title
              /\ row.content = req'[r].body.content
              /\ req'[r].post = row
              /\ users' = users]_vars

\* C2 happens: a body naming another author and published = true was
\* stored under the session's own id, unpublished.
C2_Witness ==
    \E r \in Reqs :
        /\ req[r].kind = "POST" /\ req[r].status = 201
        /\ req[r].body.authorId # Undefined
        /\ req[r].body.authorId # req[r].session.user.id
        /\ req[r].body.published
        /\ req[r].post \in posts
        /\ req[r].post.authorId = req[r].session.user.id
        /\ ~req[r].post.published

\* C3: the rows of a 200 'list posts' response are ordered by createdAt
\* descending: a row never comes before one created later.
C3_ListNewestFirst ==
    \A r \in Reqs :
        (req[r].kind = "GET" /\ req[r].status = 200)
        => \A i \in 1 .. Len(req[r].rows), j \in 1 .. Len(req[r].rows) :
             i < j => req[r].rows[i].post.createdAt >= req[r].rows[j].post.createdAt

\* C3 happens: posts created at three different times came back T3, T2, T1.
C3_Witness ==
    \E r \in Reqs :
        /\ req[r].kind = "GET" /\ req[r].status = 200
        /\ Len(req[r].rows) = 3
        /\ req[r].rows[1].post.createdAt > req[r].rows[2].post.createdAt
        /\ req[r].rows[2].post.createdAt > req[r].rows[3].post.createdAt

\* C4: a 'list posts' request whose storage call does not fail is answered
\* 200 with every stored Post exactly once, published or not, each with the
\* name and email of the User its authorId names, and changes no row.
C4_ListReturnsAll ==
    [][\A r \in Reqs :
         (Finishes(r) /\ req'[r].kind = "GET" /\ req'[r].error = "none")
         => LET rows == req'[r].rows
            IN  /\ req'[r].status = 200
                /\ Len(rows) = Cardinality(posts)
                /\ {rows[i].post : i \in 1 .. Len(rows)} = posts
                /\ \A i \in 1 .. Len(rows) :
                     \E u \in users :
                         /\ u.id = rows[i].post.authorId
                         /\ rows[i].author = [name |-> u.name, email |-> u.email]
                /\ posts' = posts
                /\ users' = users]_vars

\* C4 happens: a response lists a published and an unpublished post, with
\* the demo user's name and email joined.
C4_Witness ==
    \E r \in Reqs :
        /\ req[r].kind = "GET" /\ req[r].status = 200
        /\ Len(req[r].rows) = Cardinality(posts)
        /\ \E i, j \in 1 .. Len(req[r].rows) :
             /\ req[r].rows[i].post.published
             /\ ~req[r].rows[j].post.published
             /\ req[r].rows[i].author = [name |-> DemoName, email |-> DemoEmail]

\* The demo users of the store.
DemoUsers == {u \in users : u.email = DemoEmail}

\* C5: after n completed seed runs made one after another from an empty
\* store there are exactly 2n Posts, and from the first completed run on
\* exactly one demo user, whose id every Post carries as authorId.
C5_SeedRunsSequential ==
    /\ Cardinality(posts) = SeedPostCount * seedExits
    /\ seedExits >= 1 =>
         /\ Cardinality(DemoUsers) = 1
         /\ \A p \in posts : \A u \in DemoUsers : p.authorId = u.id

\* C5 happens: two completed runs left one user and four posts.
C5_Witness ==
    /\ seedExits = 2
    /\ Cardinality(users) = 1
    /\ Cardinality(posts) = 4

\* C6: no two User rows share an email, and an insert of a User whose
\* email a row already has fails and adds no row.
C6_EmailUnique ==
    /\ [](\A u, v \in users : u.email = v.email => u = v)
    /\ [][\A s \in SeedProcs :
            (/\ seedp[s].pc = "insertUser"
             /\ seedp'[s].pc # "insertUser"
             /\ DemoUsers # {})
            => (/\ users' = users
                /\ seedp'[s].pc = "failed"
                /\ seedp'[s].error \in {"unique", "unavailable"})]_vars

\* C6 happens: a seed run's user insert was rejected by the unique
\* constraint while the demo user existed once.
C6_Witness ==
    \E s \in SeedProcs :
        /\ seedp[s].pc = "failed" /\ seedp[s].error = "unique"
        /\ Cardinality(DemoUsers) = 1

\* The errors the store raises.
StorageErrors == {"unavailable", "not_null", "too_long", "foreign_key"}

\* C7: every Post row's authorId is the id of a User row; no step removes
\* a User; and a 'create post' whose author id names no User at its insert
\* fails with status 500 and adds no row.
C7_AuthorExists ==
    /\ [](\A p \in posts : \E u \in users : u.id = p.authorId)
    /\ [][/\ users \subseteq users'
          /\ \A r \in Reqs :
               (/\ Finishes(r) /\ req'[r].kind = "POST" /\ req'[r].dbCalls = 1
                /\ req[r].session.user.id \notin UserIds(users))
               => (/\ posts' = posts
                   /\ req'[r].status = 500
                   /\ req'[r].error \in StorageErrors)]_vars

\* C7 happens: an insert was rejected for its author id while users exist.
C7_Witness ==
    \E r \in Reqs :
        /\ req[r].kind = "POST" /\ req[r].status = 500
        /\ req[r].error = "foreign_key"
        /\ users # {}
        /\ req[r].session.user.id \notin UserIds(users)

\* C8: a storage failure of any subtype during 'list posts' or during an
\* authenticated 'create post' is answered 500, after exactly one storage
\* call, and the failed request adds no Post row.
C8_StorageFailureIs500 ==
    [][\A r \in Reqs :
         (Finishes(r) /\ req'[r].error \in StorageErrors)
         => (/\ req'[r].status = 500
             /\ req'[r].dbCalls = 1
             /\ posts' = posts
             /\ users' = users)]_vars

\* C8 happens: an over-long title was answered 500 by a store that holds
\* the author.
C8_Witness ==
    \E r \in Reqs :
        /\ req[r].kind = "POST" /\ req[r].status = 500
        /\ req[r].error = "too_long"
        /\ req[r].session.user.id \in UserIds(users)
        /\ req[r].dbCalls = 1

\* Both invocations have answered a 'create post' request, each for a
\* resolved identity, and the identities differ.
BothAnswered ==
    /\ \A r \in Reqs :
         /\ req[r].pc = "done" /\ req[r].kind = "POST"
         /\ ~NoIdentity(req[r].session)
    /\ req[1].session.user.id # req[2].session.user.id

\* Invocation r's own row: in the store, with r's identity, title, content.
OwnRow(r) ==
    /\ req[r].post \in posts
    /\ req[r].post.authorId = req[r].session.user.id
    /\ req[r].post.title = req[r].body.title
    /\ req[r].post.content = req[r].body.content

\* C9 as stated: two concurrent 'create post' requests of different
\* identities both succeed and leave exactly two rows, one each.
C9_BothAlwaysSucceed ==
    BothAnswered =>
        /\ \A r \in Reqs : req[r].status = 201 /\ OwnRow(r)
        /\ req[1].post.id # req[2].post.id
        /\ Cardinality(posts) = 2

\* C9 amended: under every interleaving each of the two requests either
\* is answered 201 and has added exactly its own row, or is answered 500
\* for a failure of its own (body, or its insert) and has added none; the
\* store holds the rows of the successful requests and no other, so when
\* neither fails it has gained exactly two distinct rows, one per identity.
C9_EachOwnRowOrOwnFailure ==
    BothAnswered =>
        /\ \A r \in Reqs :
             \/ req[r].status = 201 /\ req[r].error = "none" /\ OwnRow(r)
             \/ /\ req[r].status = 500
                /\ req[r].error \in StorageErrors \cup {"body"}
                /\ req[r].post = NoPost
        /\ posts = {req[r].post : r \in {q \in Reqs : req[q].status = 201}}
        /\ (\A r \in Reqs : req[r].status = 201)
             => (req[1].post.id # req[2].post.id /\ Cardinality(posts) = 2)

\* C9 happens: both requests succeeded and the store holds two rows.
C9_Witness ==
    /\ BothAnswered
    /\ \A r \in Reqs : req[r].status = 201 /\ OwnRow(r)
    /\ Cardinality(posts) = 2

\* C10 as stated: with DATABASE_URL absent or malformed the process never
\* gets to serve, and no request is ever answered.
C10_BadUrlNeverServes ==
    dbUrl # "valid" =>
        /\ proc # "serving"
        /\ \A r \in Reqs : req[r].pc = "idle"

C12_IdentityPerRequest ==
    /\ [](\A r \in Reqs :
            req[r].pc = "idle"
            => (req[r].session = NoSession /\ req[r].token = NoToken))
    /\ [][\A r \in Reqs :
            /\ (/\ req[r].pc = "idle" /\ req'[r].kind = "POST"
                 /\ req'[r].error # "session"
                 /\ NoIdentity(req'[r].session))
               => (/\ req'[r].pc = "done"
                   /\ req'[r].status = 401
                   /\ posts' = posts)
            /\ (req[r].pc = "create" /\ req'[r].pc = "done")
               => (/\ req'[r].session = req[r].session
                   /\ \A p \in posts' \ posts :
                        /\ posts' \ posts = {p}
                        /\ p.authorId = req[r].session.user.id)]_vars

\* C12 happens: two earlier requests inserted rows for two identities, and
\* the request after them, given no session, is answered 401.
C12_Witness ==
    \E r \in Reqs, p, q \in posts :
        /\ p.authorId # q.authorId
        /\ req[r].kind = "POST" /\ req[r].pc = "done"
        /\ req[r].session = NoSession
        /\ req[r].status = 401

\* Two runs of the seed routine, one per process, have both ended.
TwoRunsEnded ==
    /\ seedRuns = 2
    /\ \A s \in SeedProcs : seedp[s].pc \in {"exited", "failed"}

\* C13 as stated: two concurrent runs on a store with no demo user end,
\* under every interleaving, with exactly one demo User and 2 or 4 Posts,
\* all of that user; a run rejected by the unique email inserts no Post.
C13_OneUserTwoOrFourPosts ==
    TwoRunsEnded
    => (/\ Cardinality(DemoUsers) = 1
        /\ Cardinality(posts) \in {2, 4}
        /\ \A p \in posts : p.authorId \in UserIds(DemoUsers)
        /\ (\E s \in SeedProcs : seedp[s].error = "unique")
           => Cardinality(posts) = 2)

\* C13, amended: under every interleaving there is never more than one
\* demo User and every Post is that user's; a run whose user insert the
\* unique email rejects ends there, changing nothing; and when no statement
\* of either run fails for a store outage, the two runs end with exactly
\* one demo User and with 2 Posts if one run was rejected, 4 if none was.
C13_ConcurrentSeeds ==
    /\ [](/\ Cardinality(DemoUsers) <= 1
          /\ \A p \in posts : p.authorId \in UserIds(DemoUsers))
    /\ [](( /\ TwoRunsEnded
            /\ \A s \in SeedProcs : seedp[s].error # "unavailable")
          => (/\ Cardinality(DemoUsers) = 1
              /\ Cardinality(posts) \in {2, 4}
              /\ (Cardinality(posts) = 2
                  <=> \E s \in SeedProcs : seedp[s].error = "unique")))
    /\ [][\A s \in SeedProcs :
            (seedp[s].pc = "insertUser" /\ seedp'[s].error = "unique")
            => (/\ seedp'[s].pc = "failed"
                /\ posts' = posts
                /\ users' = users)]_vars

\* C13 happens: both lookups found no demo user, one insert was rejected
\* by the unique email, and the other run inserted its two Posts.
C13_Witness ==
    /\ TwoRunsEnded
    /\ \E s, t \in SeedProcs :
          /\ seedp[s].error = "unique"
          /\ seedp[t].pc = "exited"
    /\ Cardinality(DemoUsers) = 1
    /\ Cardinality(posts) = 2

====
